---- MODULE Spec2Model ----
(***************************************************************************)
(* A model of app/retrieval.py: the chunker (_chunk_document), the lazy   *)
(* index build (_build_index, _ensure_index) and the query engine         *)
(* (retrieve), the latter run by several request threads at once.         *)
(*                                                                         *)
(* A text is a sequence of one-character strings.  Python positions are   *)
(* 0-based; Char(text, i) reads Python's text[i].                         *)
(***************************************************************************)
EXTENDS Integers, Sequences, FiniteSets, TLC

\* ---------------------------------------------------------------- bounds
MaxLen == 6
MaxChunkSize == 5
MaxOverlap == 6
MaxChunks == 3
NumThreads == 2
MaxCalls == 2

\* ------------------------------------------------------- program constants
DefaultChunkSize == 500
DefaultOverlap == 100
BoundaryWindow == 100
MaxFeatures == 5000
TopK == 3

VARIABLES
    text,        \* _chunk_document: the argument text
    chunk_size,  \* _chunk_document: the argument chunk_size
    overlap,     \* _chunk_document: the argument overlap
    start,       \* _chunk_document: the local start
    cpc,         \* _chunk_document: "call", "loop", "done" (returned), "crashed" (raised)
    nchunks,     \* len(chunks), counted up to MaxChunks
    covered,     \* the positions (0-based) of text that lie in an emitted chunk
    lastEnd,     \* the end of the last window cut, -1 before the first
    tick,        \* flips at every iteration of the while loop
    corpus,         \* the name of the knowledge base directory in use
    _vectorizer,    \* module global: 0 for None, else the id of a vectorizer object
    _snippets,      \* module global: [set, bid, val], set = FALSE for None
    _source_ids,    \* module global, likewise
    _tfidf_matrix,  \* module global, likewise; val is the sequence of rows
    vectorizers,    \* the TfidfVectorizer objects, by id: [fitted, vocabulary, ngram]
    builds,         \* the executions of _build_index so far: [call, status]
    pc,             \* per thread: the line of retrieve it is at, "idle" between calls
    query,          \* per thread: customer_message
    loc,            \* per thread: the locals of _build_index and retrieve
    ret,            \* per thread: how the last call ended and what it returned
    ncalls          \* the number of retrieve calls made so far

chunkVars == <<text, chunk_size, overlap, start, cpc, nchunks, covered, lastEnd, tick>>

globalVars == <<_vectorizer, _snippets, _source_ids, _tfidf_matrix, vectorizers>>

retrieveVars == <<corpus, globalVars, builds, pc, query, loc, ret, ncalls>>

vars == <<chunkVars, retrieveVars>>

\* ------------------------------------------------------------ characters
SentenceEnd == {".", "!", "?", "\n"}
Whitespace == {" ", "\n", "\t"}
ChunkAlphabet == {"x", ".", " "}

Max(a, b) == IF a >= b THEN a ELSE b
Min(a, b) == IF a <= b THEN a ELSE b

\* Python's text[i]: a negative i counts from the end; out of range raises.
InIndexRange(t, i) == i < Len(t) /\ i >= -Len(t)
Char(t, i) == IF i >= 0 THEN t[i + 1] ELSE t[Len(t) + i + 1]

\* Python's slice bound: negative counts from the end, then clamped to 0..len.
SliceBound(t, i) == IF i < 0 THEN Max(Len(t) + i, 0) ELSE Min(i, Len(t))

\* The positions (0-based) of text[s:e].
SlicePositions(t, s, e) == {p \in 0..(Len(t) - 1) : SliceBound(t, s) <= p /\ p < SliceBound(t, e)}

SetMin(S) == CHOOSE p \in S : \A q \in S : p <= q
SetMax(S) == CHOOSE p \in S : \A q \in S : p >= q

\* The positions of text[s:e].strip(): from its first to its last character
\* that is no whitespace.
StripPositions(t, s, e) ==
    LET N == {p \in SlicePositions(t, s, e) : t[p + 1] \notin Whitespace}
    IN  IF N = {} THEN {} ELSE SetMin(N)..SetMax(N)

\* The text at a non-empty range of positions.
TextAt(t, P) == SubSeq(t, SetMin(P) + 1, SetMax(P) + 1)

\* for i in range(i, lo, -1): if text[i] in '.!?\n': end = i + 1; break
\* The result is the new end, "none" when the range is exhausted (end is
\* kept), or "raise" when text[i] is out of range (IndexError).
RECURSIVE ScanBack(_, _, _)
ScanBack(t, i, lo) ==
    IF i <= lo THEN [kind |-> "none", end |-> 0]
    ELSE IF ~InIndexRange(t, i) THEN [kind |-> "raise", end |-> 0]
    ELSE IF Char(t, i) \in SentenceEnd THEN [kind |-> "found", end |-> i + 1]
    ELSE ScanBack(t, i - 1, lo)

\* Lines 73-82: the end of the window that starts at s.
WindowEnd(t, size, s) ==
    LET end == s + size
    IN  IF end < Len(t)
        THEN LET r == ScanBack(t, end, Max(s + (size \div 2), end - BoundaryWindow))
             IN  IF r.kind = "none" THEN [kind |-> "ok", end |-> end]
                 ELSE IF r.kind = "raise" THEN r
                 ELSE [kind |-> "ok", end |-> r.end]
        ELSE [kind |-> "ok", end |-> end]

\* Line 90: start = end - overlap
NextStart(end, ov) == end - ov

\* Line 66-67: a text no longer than chunk_size is returned whole.
ChunkShort ==
    /\ cpc = "call"
    /\ Len(text) <= chunk_size
    /\ cpc' = "done"
    /\ nchunks' = 1
    /\ covered' = 0..(Len(text) - 1)
    /\ UNCHANGED <<text, chunk_size, overlap, start, lastEnd, tick>>
    /\ UNCHANGED retrieveVars

\* Lines 69-72: chunks = [], start = 0, and the loop is entered.
ChunkEnter ==
    /\ cpc = "call"
    /\ Len(text) > chunk_size
    /\ cpc' = "loop"
    /\ start' = 0
    /\ UNCHANGED <<text, chunk_size, overlap, nchunks, covered, lastEnd, tick>>
    /\ UNCHANGED retrieveVars

\* Lines 72-92: one iteration of the while loop.
ChunkIter ==
    /\ cpc = "loop"
    /\ tick' = 1 - tick
    /\ LET w == WindowEnd(text, chunk_size, start)
       IN  IF w.kind = "raise"
           THEN /\ cpc' = "crashed"
                /\ UNCHANGED <<start, nchunks, covered, lastEnd>>
           ELSE LET P == StripPositions(text, start, w.end)
                    s2 == NextStart(w.end, overlap)
                IN  /\ nchunks' = IF P # {} THEN Min(nchunks + 1, MaxChunks) ELSE nchunks
                    /\ covered' = covered \cup P
                    /\ lastEnd' = w.end
                    /\ start' = s2
                    /\ cpc' = IF s2 >= Len(text) THEN "done" ELSE "loop"
    /\ UNCHANGED <<text, chunk_size, overlap>>
    /\ UNCHANGED retrieveVars

\* Lines 72-92 as a function: the chunks cut from start s on.  Used where the
\* loop ends and raises nothing, as it does with the default size and overlap.
RECURSIVE ChunkLoop(_, _, _, _)
ChunkLoop(t, size, ov, s) ==
    LET w == WindowEnd(t, size, s)
        P == StripPositions(t, s, w.end)
        s2 == NextStart(w.end, ov)
    IN  (IF P # {} THEN <<TextAt(t, P)>> ELSE <<>>)
        \o (IF s2 >= Len(t) THEN <<>> ELSE ChunkLoop(t, size, ov, s2))

\* _chunk_document(text, chunk_size, overlap)
ChunkDocument(t, size, ov) ==
    IF Len(t) <= size THEN <<t>> ELSE ChunkLoop(t, size, ov, 0)

\* ------------------------------------------------------------ the corpus
\* A character of a document stands for one word of it: "x", "y", "z" are
\* words, "s" is an English stop word, the others separate words.
WordChars == {"x", "y", "z", "s"}
StopWords == {"s"}

Threads == 1..NumThreads

File(stem, content, readable) == [stem |-> stem, content |-> content, readable |-> readable]

MissingDir == [exists |-> FALSE, files |-> <<>>]
EmptyDir == [exists |-> TRUE, files |-> <<>>]
BlankAndUnreadable ==
    [exists |-> TRUE,
     files |-> <<File("a", <<" ", " ">>, TRUE), File("b", <<"x">>, FALSE), File("c", <<>>, TRUE)>>]
OnlyStopWords == [exists |-> TRUE, files |-> <<File("a", <<"s", " ", "s">>, TRUE)>>]
TiedDocs ==
    [exists |-> TRUE,
     files |-> <<File("a", <<"x">>, TRUE), File("b", <<"y">>, TRUE), File("c", <<" ", "x", ".">>, TRUE),
                 File("d", <<"x", " ", "y">>, TRUE), File("e", <<"x">>, TRUE)>>]
FourTied ==
    [exists |-> TRUE,
     files |-> <<File("a", <<"x">>, TRUE), File("b", <<"x">>, TRUE), File("c", <<"x">>, TRUE),
                 File("d", <<"x">>, TRUE)>>]
MixedDocs ==
    [exists |-> TRUE,
     files |-> <<File("a", <<"x", " ", "y">>, TRUE), File("b", <<"y", " ", "z">>, TRUE),
                 File("c", <<"x">>, FALSE), File("d", <<"s", " ", "z">>, TRUE)>>]

\* The knowledge bases, by name; the variable corpus holds the name.
KnowledgeBases ==
    "MissingDir" :> MissingDir @@ "EmptyDir" :> EmptyDir
    @@ "BlankAndUnreadable" :> BlankAndUnreadable @@ "OnlyStopWords" :> OnlyStopWords
    @@ "TiedDocs" :> TiedDocs @@ "MixedDocs" :> MixedDocs @@ "FourTied" :> FourTied

Corpora == {"MissingDir", "EmptyDir", "BlankAndUnreadable", "OnlyStopWords", "TiedDocs", "MixedDocs"}
SeqCorpora == Corpora \cup {"FourTied"}

Queries == {<<"x">>, <<"y", " ", "z">>, <<"s", " ", "w">>}

\* ------------------------------------------------- _load_knowledge_base
\* Lines 33-51: no directory, no documents; a file that cannot be read or is
\* empty once stripped is skipped.
RECURSIVE LoadFiles(_)
LoadFiles(files) ==
    IF files = <<>> THEN <<>>
    ELSE LET f == Head(files)
             P == StripPositions(f.content, 0, Len(f.content))
         IN  (IF f.readable /\ P # {}
              THEN <<[source_id |-> f.stem, text |-> TextAt(f.content, P)]>>
              ELSE <<>>)
             \o LoadFiles(Tail(files))

LoadKnowledgeBase(c) == IF ~c.exists THEN <<>> ELSE LoadFiles(c.files)

\* Lines 110-117: every chunk of every document, with its document's id.
RECURSIVE ChunkAll(_)
ChunkAll(docs) ==
    IF docs = <<>> THEN <<>>
    ELSE LET d == Head(docs)
             cs == ChunkDocument(d.text, DefaultChunkSize, DefaultOverlap)
         IN  [i \in 1..Len(cs) |-> [source_id |-> d.source_id, chunk |-> cs[i]]]
             \o ChunkAll(Tail(docs))

\* -------------------------------------------------------- TfidfVectorizer
\* The features of a text: its words without the stop words, and with
\* ngram_range=(1, 2) the pairs of neighbouring words that remain.
IsTerm(c) == c \in WordChars \ StopWords
IsWord(c) == c \notin Whitespace \cup SentenceEnd

Features(t, ngram) ==
    LET w == SelectSeq(SelectSeq(t, IsWord), IsTerm)
    IN  {<<w[i]>> : i \in 1..Len(w)}
        \cup (IF ngram >= 2 THEN {<<w[i], w[i + 1]>> : i \in 1..(Len(w) - 1)} ELSE {})

\* The vocabulary fit learns from the snippets, at most max_features terms.
Vocabulary(snips, ngram) ==
    LET F == UNION {Features(snips[i], ngram) : i \in 1..Len(snips)}
    IN  IF Cardinality(F) <= MaxFeatures THEN F
        ELSE CHOOSE S \in SUBSET F : Cardinality(S) = MaxFeatures

\* The rows of the matrix fit_transform returns: one per snippet.
Rows(snips, ngram, vocab) == [i \in 1..Len(snips) |-> Features(snips[i], ngram) \cap vocab]

\* cosine_similarity of two rows, both taken as 0/1 vectors over the
\* vocabulary: the squared cosine, scaled to an integer; 0 when no term is shared.
Similarity(q, r) ==
    LET c == Cardinality(q \cap r)
    IN  IF c = 0 THEN 0 ELSE (c * c * 3600) \div (Cardinality(q) * Cardinality(r))

\* ------------------------------------------------------------- the state
None == [set |-> FALSE, bid |-> 0, val |-> <<>>]
NoLocals ==
    [bid |-> 0, snippets |-> <<>>, source_ids |-> <<>>, matrix |-> <<>>,
     qvec |-> {}, sims |-> <<>>]
NoReturn == [kind |-> "none", results |-> <<>>, picked |-> <<>>]

\* The module as imported: no index, no call made.
InitRetrieve(c) ==
    /\ corpus = c
    /\ _vectorizer = 0
    /\ _snippets = None
    /\ _source_ids = None
    /\ _tfidf_matrix = None
    /\ vectorizers = <<>>
    /\ builds = <<>>
    /\ pc = [t \in Threads |-> "idle"]
    /\ query = [t \in Threads |-> <<>>]
    /\ loc = [t \in Threads |-> NoLocals]
    /\ ret = [t \in Threads |-> NoReturn]
    /\ ncalls = 0

\* --------------------------------------------------------------- retrieve
Goto(t, l) == pc' = [pc EXCEPT ![t] = l]

\* return value / raise: the call of thread t ends.
Return(t, results, picked) ==
    /\ pc' = [pc EXCEPT ![t] = "idle"]
    /\ ret' = [ret EXCEPT ![t] = [kind |-> "returned", results |-> results, picked |-> picked]]
    /\ loc' = [loc EXCEPT ![t] = NoLocals]

Raise(t) ==
    /\ pc' = [pc EXCEPT ![t] = "idle"]
    /\ ret' = [ret EXCEPT ![t] = [kind |-> "raised", results |-> <<>>, picked |-> <<>>]]
    /\ loc' = [loc EXCEPT ![t] = NoLocals]

\* Lines 160-163: a request thread calls retrieve(q).
Call(t, q) ==
    /\ pc[t] = "idle"
    /\ ncalls < MaxCalls
    /\ ncalls' = ncalls + 1
    /\ query' = [query EXCEPT ![t] = q]
    /\ ret' = [ret EXCEPT ![t] = NoReturn]
    /\ Goto(t, "l143")
    /\ UNCHANGED chunkVars
    /\ UNCHANGED <<corpus, globalVars, builds, loc>>

\* Line 143, left operand: _vectorizer is None
EnsureVectorizer(t) ==
    /\ pc[t] = "l143"
    /\ Goto(t, IF _vectorizer = 0 THEN "l107" ELSE "l143m")
    /\ UNCHANGED chunkVars
    /\ UNCHANGED <<corpus, globalVars, builds, query, loc, ret, ncalls>>

\* Line 143, right operand: _tfidf_matrix is None
EnsureMatrix(t) ==
    /\ pc[t] = "l143m"
    /\ Goto(t, IF ~_tfidf_matrix.set THEN "l107" ELSE "l165")
    /\ UNCHANGED chunkVars
    /\ UNCHANGED <<corpus, globalVars, builds, query, loc, ret, ncalls>>

\* Line 120: not snippets
NoSnippetsNever(snips) == FALSE
NoSnippets(snips) == snips = <<>>

\* Lines 107-120: _build_index starts; the documents are loaded and chunked
\* into the locals snippets and source_ids.
BuildLoad(t) ==
    /\ pc[t] = "l107"
    /\ LET A == ChunkAll(LoadKnowledgeBase(KnowledgeBases[corpus]))
           snips == [i \in 1..Len(A) |-> A[i].chunk]
           b == Len(builds) + 1
       IN  /\ builds' = Append(builds, [call |-> ncalls, status |-> "running"])
           /\ vectorizers' = Append(vectorizers, [fitted |-> FALSE, vocabulary |-> {}, ngram |-> 0])
           /\ loc' = [loc EXCEPT ![t] = [@ EXCEPT !.bid = b, !.snippets = snips,
                                                  !.source_ids = [i \in 1..Len(A) |-> A[i].source_id]]]
           /\ Goto(t, IF NoSnippets(snips) THEN "l122" ELSE "l130")
    /\ UNCHANGED chunkVars
    /\ UNCHANGED <<corpus, _vectorizer, _snippets, _source_ids, _tfidf_matrix, query, ret, ncalls>>

\* Line 122: _vectorizer = TfidfVectorizer(max_features=5000, stop_words='english')
L122(t) ==
    /\ pc[t] = "l122"
    /\ _vectorizer' = loc[t].bid
    /\ vectorizers' = [vectorizers EXCEPT ![loc[t].bid] = [fitted |-> FALSE, vocabulary |-> {}, ngram |-> 1]]
    /\ Goto(t, "l123")
    /\ UNCHANGED chunkVars
    /\ UNCHANGED <<corpus, _snippets, _source_ids, _tfidf_matrix, builds, query, loc, ret, ncalls>>

\* Line 123: _snippets = []
L123(t) ==
    /\ pc[t] = "l123"
    /\ _snippets' = [set |-> TRUE, bid |-> loc[t].bid, val |-> <<>>]
    /\ Goto(t, "l124")
    /\ UNCHANGED chunkVars
    /\ UNCHANGED <<corpus, _vectorizer, _source_ids, _tfidf_matrix, vectorizers, builds, query, loc, ret, ncalls>>

\* Line 124: _source_ids = []
L124(t) ==
    /\ pc[t] = "l124"
    /\ _source_ids' = [set |-> TRUE, bid |-> loc[t].bid, val |-> <<>>]
    /\ Goto(t, "l125")
    /\ UNCHANGED chunkVars
    /\ UNCHANGED <<corpus, _vectorizer, _snippets, _tfidf_matrix, vectorizers, builds, query, loc, ret, ncalls>>

\* Lines 125-126: _tfidf_matrix = None; return
L125(t) ==
    /\ pc[t] = "l125"
    /\ _tfidf_matrix' = [set |-> FALSE, bid |-> loc[t].bid, val |-> <<>>]
    /\ builds' = [builds EXCEPT ![loc[t].bid].status = "completed"]
    /\ Goto(t, "l165")
    /\ UNCHANGED chunkVars
    /\ UNCHANGED <<corpus, _vectorizer, _snippets, _source_ids, vectorizers, query, loc, ret, ncalls>>

\* Line 130: _vectorizer = TfidfVectorizer(..., ngram_range=(1, 2))
L130(t) ==
    /\ pc[t] = "l130"
    /\ _vectorizer' = loc[t].bid
    /\ vectorizers' = [vectorizers EXCEPT ![loc[t].bid] = [fitted |-> FALSE, vocabulary |-> {}, ngram |-> 2]]
    /\ Goto(t, "l131")
    /\ UNCHANGED chunkVars
    /\ UNCHANGED <<corpus, _snippets, _source_ids, _tfidf_matrix, builds, query, loc, ret, ncalls>>

\* Line 131, the call _vectorizer.fit_transform(snippets): the object the
\* global names now is fitted.  An empty vocabulary raises ValueError, which
\* nothing between here and the caller of retrieve catches.
L131Fit(t) ==
    /\ pc[t] = "l131"
    /\ LET v == _vectorizer
           vocab == Vocabulary(loc[t].snippets, vectorizers[v].ngram)
       IN  IF vocab = {}
           THEN /\ builds' = [builds EXCEPT ![loc[t].bid].status = "raised"]
                /\ Raise(t)
                /\ UNCHANGED vectorizers
           ELSE /\ vectorizers' = [vectorizers EXCEPT ![v] = [@ EXCEPT !.fitted = TRUE, !.vocabulary = vocab]]
                /\ loc' = [loc EXCEPT ![t].matrix = Rows(loc[t].snippets, vectorizers[v].ngram, vocab)]
                /\ Goto(t, "l131s")
                /\ UNCHANGED <<builds, ret>>
    /\ UNCHANGED chunkVars
    /\ UNCHANGED <<corpus, _vectorizer, _snippets, _source_ids, _tfidf_matrix, query, ncalls>>

\* Line 131, the assignment _tfidf_matrix = ...
L131Store(t) ==
    /\ pc[t] = "l131s"
    /\ _tfidf_matrix' = [set |-> TRUE, bid |-> loc[t].bid, val |-> loc[t].matrix]
    /\ Goto(t, "l133")
    /\ UNCHANGED chunkVars
    /\ UNCHANGED <<corpus, _vectorizer, _snippets, _source_ids, vectorizers, builds, query, loc, ret, ncalls>>

\* Line 133: _snippets = snippets
L133(t) ==
    /\ pc[t] = "l133"
    /\ _snippets' = [set |-> TRUE, bid |-> loc[t].bid, val |-> loc[t].snippets]
    /\ Goto(t, "l134")
    /\ UNCHANGED chunkVars
    /\ UNCHANGED <<corpus, _vectorizer, _source_ids, _tfidf_matrix, vectorizers, builds, query, loc, ret, ncalls>>

\* Lines 134-136: _source_ids = source_ids, and _build_index returns
L134(t) ==
    /\ pc[t] = "l134"
    /\ _source_ids' = [set |-> TRUE, bid |-> loc[t].bid, val |-> loc[t].source_ids]
    /\ builds' = [builds EXCEPT ![loc[t].bid].status = "completed"]
    /\ Goto(t, "l165")
    /\ UNCHANGED chunkVars
    /\ UNCHANGED <<corpus, _vectorizer, _snippets, _tfidf_matrix, vectorizers, query, loc, ret, ncalls>>

\* Line 165, first operand: not _snippets (None and [] are both false)
L165Snippets(t) ==
    /\ pc[t] = "l165"
    /\ IF ~_snippets.set \/ _snippets.val = <<>>
       THEN Return(t, <<>>, <<>>)
       ELSE Goto(t, "l165v") /\ UNCHANGED <<loc, ret>>
    /\ UNCHANGED chunkVars
    /\ UNCHANGED <<corpus, globalVars, builds, query, ncalls>>

\* Line 165, second operand: not _vectorizer
L165Vectorizer(t) ==
    /\ pc[t] = "l165v"
    /\ IF _vectorizer = 0
       THEN Return(t, <<>>, <<>>)
       ELSE Goto(t, "l165m") /\ UNCHANGED <<loc, ret>>
    /\ UNCHANGED chunkVars
    /\ UNCHANGED <<corpus, globalVars, builds, query, ncalls>>

\* Line 165, third operand: _tfidf_matrix is None
L165Matrix(t) ==
    /\ pc[t] = "l165m"
    /\ IF ~_tfidf_matrix.set
       THEN Return(t, <<>>, <<>>)
       ELSE Goto(t, "l173") /\ UNCHANGED <<loc, ret>>
    /\ UNCHANGED chunkVars
    /\ UNCHANGED <<corpus, globalVars, builds, query, ncalls>>

\* Line 173: query_vector = _vectorizer.transform([customer_message]).  A
\* vectorizer that is not fitted raises NotFittedError, caught at line 214.
L173(t) ==
    /\ pc[t] = "l173"
    /\ LET v == vectorizers[_vectorizer]
       IN  IF ~v.fitted
           THEN Return(t, <<>>, <<>>)
           ELSE /\ loc' = [loc EXCEPT ![t].qvec = Features(query[t], v.ngram) \cap v.vocabulary]
                /\ Goto(t, "l178")
                /\ UNCHANGED ret
    /\ UNCHANGED chunkVars
    /\ UNCHANGED <<corpus, globalVars, builds, query, ncalls>>

\* similarities.argsort(): the indices in ascending order of similarity; the
\* order of equal similarities is whatever the sort leaves.
RECURSIVE SortsOf(_, _)
SortsOf(S, sims) ==
    IF S = {} THEN {<<>>}
    ELSE LET least == {i \in S : \A j \in S : sims[i] <= sims[j]}
         IN  UNION {{<<i>> \o r : r \in SortsOf(S \ {i}, sims)} : i \in least}

Argsorts(sims) == SortsOf(1..Len(sims), sims)

\* a[-k:][::-1]: the last k elements, last first.
LastReversed(a, k) == [i \in 1..Min(k, Len(a)) |-> a[Len(a) + 1 - i]]

\* Line 178: the similarities of the query to every row of _tfidf_matrix.
L178(t) ==
    /\ pc[t] = "l178"
    /\ LET m == _tfidf_matrix.val
       IN  loc' = [loc EXCEPT ![t].sims = [i \in 1..Len(m) |-> Similarity(loc[t].qvec, m[i])]]
    /\ Goto(t, "l182")
    /\ UNCHANGED chunkVars
    /\ UNCHANGED <<corpus, globalVars, builds, query, ret, ncalls>>

\* Line 182: top_indices = similarities.argsort()[-3:][::-1] (here 1-based)
TopIndices(sims) == {LastReversed(p, TopK) : p \in Argsorts(sims)}

\* Line 190: similarity_score > 0
KeepNonNegative(score) == score >= 0
Keep(score) == score > 0

\* Lines 182-212: top_indices, then the results, one for every top index
\* whose similarity passes line 190.  _source_ids[idx] raises TypeError while
\* _source_ids is None, caught at line 214.
RECURSIVE Kept(_, _)
Kept(top, sims) ==
    IF top = <<>> THEN <<>>
    ELSE (IF Keep(sims[Head(top)]) THEN <<Head(top)>> ELSE <<>>) \o Kept(Tail(top), sims)

L182(t) ==
    /\ pc[t] = "l182"
    /\ \E top \in TopIndices(loc[t].sims) :
           LET kept == Kept(top, loc[t].sims)
           IN  IF kept # <<>> /\ (~_source_ids.set \/ ~_snippets.set)
               THEN Return(t, <<>>, <<>>)
               ELSE Return(t, [i \in 1..Len(kept) |-> [source_id |-> _source_ids.val[kept[i]],
                                                        excerpt |-> _snippets.val[kept[i]]]], kept)
    /\ UNCHANGED chunkVars
    /\ UNCHANGED <<corpus, globalVars, builds, query, ncalls>>

Step(t) ==
    \/ \E q \in Queries : Call(t, q)
    \/ EnsureVectorizer(t) \/ EnsureMatrix(t)
    \/ BuildLoad(t)
    \/ L122(t) \/ L123(t) \/ L124(t) \/ L125(t)
    \/ L130(t) \/ L131Fit(t) \/ L131Store(t) \/ L133(t) \/ L134(t)
    \/ L165Snippets(t) \/ L165Vectorizer(t) \/ L165Matrix(t)
    \/ L173(t) \/ L178(t) \/ L182(t)

ChunkerIdle ==
    /\ text = <<>>
    /\ chunk_size = DefaultChunkSize
    /\ overlap = DefaultOverlap
    /\ start = 0
    /\ cpc = "done"
    /\ nchunks = 0
    /\ covered = {}
    /\ lastEnd = -1
    /\ tick = 0

\* The request threads of the server, over any one corpus.
Init == ChunkerIdle /\ \E c \in Corpora : InitRetrieve(c)

Next == \E t \in Threads : Step(t)

Spec == Init /\ [][Next]_vars

\* One request at a time.
InitSeq == ChunkerIdle /\ \E c \in SeqCorpora : InitRetrieve(c)

NextSeq == Step(1)

SpecSeq == InitSeq /\ [][NextSeq]_vars

\* ------------------------------------------------ _chunk_document alone
Texts == UNION {[1..n -> ChunkAlphabet] : n \in 0..MaxLen}

\* _chunk_document(text, chunk_size, overlap) has just been called.
InitChunk ==
    /\ text \in Texts
    /\ chunk_size \in 1..MaxChunkSize
    /\ overlap \in 0..MaxOverlap
    /\ start = 0
    /\ cpc = "call"
    /\ nchunks = 0
    /\ covered = {}
    /\ lastEnd = -1
    /\ tick = 0
    /\ InitRetrieve("MissingDir")

NextChunk == ChunkShort \/ ChunkEnter \/ ChunkIter

SpecChunk == InitChunk /\ [][NextChunk]_vars

\* The calls with a text longer than chunk_size and 0 <= overlap < chunk_size.
\* A call that has started keeps executing, hence the fairness.
InitChunkLong == InitChunk /\ Len(text) > chunk_size /\ overlap < chunk_size

NextChunkLong == ChunkEnter \/ ChunkIter

SpecChunkLong == InitChunkLong /\ [][NextChunkLong]_vars /\ WF_vars(NextChunkLong)

\* ================================================================ claims
\* What each corpus yields, computed once and apart from any build: its
\* chunks, its vocabulary, and the similarity of every query to every chunk.
ChunkTable == [c \in SeqCorpora |-> ChunkAll(LoadKnowledgeBase(KnowledgeBases[c]))]
VocabularyTable ==
    [c \in SeqCorpora |-> Vocabulary([i \in 1..Len(ChunkTable[c]) |-> ChunkTable[c][i].chunk], 2)]
ScoreTable ==
    [c \in SeqCorpora |-> [q \in Queries |-> [i \in 1..Len(ChunkTable[c]) |->
        Similarity(Features(q, 2) \cap VocabularyTable[c],
                   Features(ChunkTable[c][i].chunk, 2) \cap VocabularyTable[c])]]]

CorpusChunks == ChunkTable[corpus]
ZeroDocuments == LoadKnowledgeBase(KnowledgeBases[corpus]) = <<>>
Indexable == CorpusChunks # <<>> /\ VocabularyTable[corpus] # {}

\* The similarity of query q to chunk i of the corpus.
ScoreOf(q, i) == ScoreTable[corpus][q][i]

\* C1: over a corpus that can be indexed, _build_index is executed at most
\* once, however the first calls of retrieve race.
C1_SingleBuild == Indexable => Len(builds) <= 1

\* The four module variables are all unset, or all were assigned by one build
\* that has completed.
AllUnset ==
    /\ _vectorizer = 0
    /\ _snippets = None
    /\ _source_ids = None
    /\ _tfidf_matrix = None

FromOneCompletedBuild ==
    \E b \in 1..Len(builds) :
        /\ builds[b].status = "completed"
        /\ _vectorizer = b
        /\ _snippets.bid = b
        /\ _source_ids.bid = b
        /\ _tfidf_matrix.bid = b

ReadPoints == {"l143", "l143m", "l165", "l165v", "l165m", "l173", "l178", "l182"}

\* C2: over a corpus that can be indexed, while one thread is inside
\* _build_index, a thread of another call that is about to read the module
\* variables finds them all unset or all from one completed build.
C2_BuildLooksAtomic ==
    \A t, u \in Threads :
        (Indexable /\ t # u /\ pc[t] \in ReadPoints /\ loc[u].bid # 0)
            => (AllUnset \/ FromOneCompletedBuild)

\* C3: no call of retrieve ends by raising.
C3_NeverRaises == \A t \in Threads : ret[t].kind # "raised"

\* C4: with one request at a time, over a corpus that can be indexed or that
\* yields no chunk, every execution of _build_index starts during the first
\* call of retrieve.
C4_BuiltInFirstCallOnly ==
    (Indexable \/ CorpusChunks = <<>>) => \A b \in 1..Len(builds) : builds[b].call = 1

\* C5: a call that returns, returns at most 3 results, each the excerpt and
\* source of a different chunk of the corpus, each chunk with a similarity to
\* the query above 0.
C5_AtMostThreePositive ==
    \A t \in Threads :
        ret[t].kind = "returned" =>
            LET r == ret[t]
            IN  /\ Len(r.results) <= 3
                /\ Len(r.picked) = Len(r.results)
                /\ \A i, j \in 1..Len(r.picked) : i # j => r.picked[i] # r.picked[j]
                /\ \A i \in 1..Len(r.picked) :
                       /\ r.picked[i] \in 1..Len(CorpusChunks)
                       /\ r.results[i].excerpt = CorpusChunks[r.picked[i]].chunk
                       /\ r.results[i].source_id = CorpusChunks[r.picked[i]].source_id
                       /\ ScoreOf(query[t], r.picked[i]) > 0

C5_Witness ==
    \E t \in Threads :
        /\ ret[t].kind = "returned"
        /\ Len(ret[t].results) = 3
        /\ \E i \in 1..Len(CorpusChunks) : ScoreOf(query[t], i) = 0

\* The ranking the claim describes: the chunks by descending similarity, of
\* two with equal similarity the earlier one first; the first 3 of them; of
\* those, the ones with a similarity above 0.
RECURSIVE RankedFrom(_, _, _)
RankedFrom(S, q, k) ==
    IF S = {} \/ k = 0 THEN <<>>
    ELSE LET best == CHOOSE i \in S : \A j \in S :
                         \/ ScoreOf(q, i) > ScoreOf(q, j)
                         \/ (ScoreOf(q, i) = ScoreOf(q, j) /\ i <= j)
         IN  <<best>> \o RankedFrom(S \ {best}, q, k - 1)

IsPositive(q, i) == ScoreOf(q, i) > 0

RECURSIVE PositiveOf(_, _)
PositiveOf(q, idx) ==
    IF idx = <<>> THEN <<>>
    ELSE (IF IsPositive(q, Head(idx)) THEN <<Head(idx)>> ELSE <<>>) \o PositiveOf(q, Tail(idx))

EarlierWinsTop(q) == PositiveOf(q, RankedFrom(1..Len(CorpusChunks), q, 3))

\* C6: a call that returns, returns the 3 chunks of highest similarity in
\* descending order, of two chunks with equal similarity the earlier one
\* chosen first and placed first.
C6_TiesEarlierFirst ==
    \A t \in Threads : ret[t].kind = "returned" => ret[t].picked = EarlierWinsTop(query[t])

\* C7: over a corpus with no documents, every call of retrieve, in any
\* number and interleaving, returns the empty list and none raises.
C7_ZeroDocumentsEmpty ==
    ZeroDocuments => \A t \in Threads : ret[t].kind # "raised" /\ ret[t].results = <<>>

C7_Witness ==
    /\ ZeroDocuments
    /\ ncalls = MaxCalls
    /\ Len(builds) >= 2
    /\ \A t \in Threads : pc[t] = "idle"
    /\ \E t \in Threads : ret[t].kind = "returned"

ValidOverlap == 0 <= overlap /\ overlap < chunk_size
Degenerate == overlap >= chunk_size \/ Len(text) = 0

\* C8: with 0 <= overlap < chunk_size, every iteration of the loop either
\* moves start forward or ends the loop.
C8_StartAdvances ==
    [][(cpc = "loop" /\ ValidOverlap) => (start' > start \/ cpc' # "loop")]_vars

\* C9: with overlap >= chunk_size, or an empty text, the call does not raise
\* and never holds more than one chunk.
C9_DegenerateZeroOrOne == Degenerate => (cpc # "crashed" /\ nchunks <= 1)

\* Every character of text that is no whitespace lies in an emitted chunk.
Covers == \A p \in 0..(Len(text) - 1) : text[p + 1] \notin Whitespace => p \in covered

\* C10: for a text longer than chunk_size and 0 <= overlap < chunk_size, the
\* call returns with the last window at the end of the text and every
\* non-whitespace character in some emitted chunk.
C10_CoversDocument == <>(cpc = "done" /\ lastEnd >= Len(text) /\ Covers)

\* The index is visible as built: line 143 would find nothing to build.
VisibleAsBuilt == _vectorizer # 0 /\ _tfidf_matrix.set

\* Row i of the matrix is the row of _snippets[i], and _source_ids[i] is the
\* id of the document chunk i of the corpus was cut from.
AlignedAt(i) ==
    /\ _snippets.val[i] = CorpusChunks[i].chunk
    /\ _source_ids.val[i] = CorpusChunks[i].source_id
    /\ _tfidf_matrix.val[i] = Features(_snippets.val[i], 2) \cap VocabularyTable[corpus]

\* The call of thread t found the index built at line 143 and built nothing
\* itself; it is between line 165 and its return.
FoundBuilt(t) == pc[t] \in {"l165", "l165v", "l165m", "l173", "l178", "l182"} /\ loc[t].bid = 0

Aligned ==
    /\ _snippets.set
    /\ _source_ids.set
    /\ Len(_snippets.val) = Len(_tfidf_matrix.val)
    /\ Len(_source_ids.val) = Len(_tfidf_matrix.val)
    /\ \A i \in 1..Len(_tfidf_matrix.val) : AlignedAt(i)

\* C11: in every state in which _vectorizer and _tfidf_matrix are both set
\* and a call has found the index built, also while another call is inside
\* _build_index, the matrix, _snippets and _source_ids are lists of one
\* length, aligned index by index.
C11_IndexAligned ==
    \A t \in Threads : (FoundBuilt(t) /\ VisibleAsBuilt) => Aligned

====
